---- MODULE Spec2Model ----
(***************************************************************************)
(* The streaming response pipeline of Hande AI.                            *)
(*                                                                         *)
(* The repository ships two applications built on the same pipeline:       *)
(*   "ThreadSafeHandeGUI"  src/Hande.py      worker -> queue -> UI tick     *)
(*   "HandeGUI"            src/Hande_GUI.py  worker -> callback, 2-thread   *)
(*                                           executor for context lookups  *)
(* The variable app says which of the two is running.                      *)
(*                                                                         *)
(* Text is a sequence of one-character strings.  An event is a record      *)
(* [type, data] with data a sequence of strings.                           *)
(***************************************************************************)
EXTENDS Integers, Sequences, FiniteSets, TLC

VARIABLES
    app,                      \* which application is running
    threads,                  \* generation worker threads, by turn number
    response_thread,          \* self.response_thread: 0 is None, else a turn number
    stop_event,               \* self.stop_event (one threading.Event per GUI)
    message_queue,            \* self.message_queue (ThreadSafeHandeGUI)
    current_conversation_id,  \* hande_ai.current_conversation_id: 0 is None
    uuids,                    \* number of uuid4() identifiers drawn so far
    tasks,                    \* work queue of hande_ai.executor (FIFO)
    conversations,            \* rows of table conversations, in id order
    conversation_sessions,    \* rows of table conversation_sessions
    timing,                   \* clock and deadlines of one context assembly
    connection                \* the sqlite3 connection, statement by statement

\* the state of the applications
untimed == << app, threads, response_thread, stop_event, message_queue,
              current_conversation_id, uuids, tasks, conversations,
              conversation_sessions, connection >>

vars == << app, threads, response_thread, stop_event, message_queue,
           current_conversation_id, uuids, tasks, conversations,
           conversation_sessions, timing, connection >>

----------------------------------------------------------------------------
(* Bounds of the model *)

\* number of turns the user starts
MaxTurns == 2

\* longest reply of a backend model, in characters
MaxLen == 2

\* longest time a lookup takes from its submission, in half seconds
MaxDelay == 4

\* number of saves handed to the executor while the store is followed
MaxSaves == 2

\* number of conversations created while the store is followed
MaxChats == 2

\* longest query typed while the web-search test is followed
MaxQuery == 4

\* number of turns in the store when the lookup of recent turns is followed
MaxRows == 3

\* largest limit that get_conversation_context is evaluated with
MaxLimit == 4

----------------------------------------------------------------------------
(* Program constants *)

SafeApp == "ThreadSafeHandeGUI"
FastApp == "HandeGUI"

\* Hande.py: models = [...]
SafeModels == << "llama3.2", "llama3.2:1b", "llama3:8b", "gemma2:2b" >>

\* Hande_GUI.py: models_to_try = [...]
FastModels == << "llama3.2", "llama3:8b" >>

Models == IF app = SafeApp THEN SafeModels ELSE FastModels

\* ThreadPoolExecutor(max_workers=...)
SafeMaxWorkers == 1
FastMaxWorkers == 2

MaxWorkers == IF app = SafeApp THEN SafeMaxWorkers ELSE FastMaxWorkers

\* user_msg[:30]
TitleLen == 30

\* context_future.result(timeout=0.5), in half seconds
ContextTimeout == 1

\* web_future.result(timeout=1.0), in half seconds
WebTimeout == 2

\* Hande.py: indicators
SafeIndicators ==
    << <<"t", "o", "d", "a", "y">>,
       <<"n", "o", "w">>,
       <<"c", "u", "r", "r", "e", "n", "t">>,
       <<"w", "e", "a", "t", "h", "e", "r">>,
       <<"n", "e", "w", "s">>,
       <<"p", "r", "e", "s", "i", "d", "e", "n", "t">>,
       <<"l", "a", "t", "e", "s", "t">> >>

\* Hande_GUI.py: current_indicators
FastIndicators ==
    << <<"t", "o", "d", "a", "y">>,
       <<"n", "o", "w">>,
       <<"c", "u", "r", "r", "e", "n", "t">>,
       <<"l", "a", "t", "e", "s", "t">>,
       <<"r", "e", "c", "e", "n", "t">>,
       <<"2", "0", "2", "4">>,
       <<"2", "0", "2", "5">>,
       <<"w", "e", "a", "t", "h", "e", "r">>,
       <<"n", "e", "w", "s">>,
       <<"s", "t", "o", "c", "k">>,
       <<"p", "r", "i", "c", "e">>,
       <<"p", "r", "e", "s", "i", "d", "e", "n", "t">>,
       <<"d", "a", "t", "e">>,
       <<"t", "i", "m", "e">> >>

Indicators == IF app = SafeApp THEN SafeIndicators ELSE FastIndicators

----------------------------------------------------------------------------
(* Text helpers *)

UpperCase ==
    <<"A", "B", "C", "D", "E", "F", "G", "H", "I", "J", "K", "L", "M",
      "N", "O", "P", "Q", "R", "S", "T", "U", "V", "W", "X", "Y", "Z">>

LowerCase ==
    <<"a", "b", "c", "d", "e", "f", "g", "h", "i", "j", "k", "l", "m",
      "n", "o", "p", "q", "r", "s", "t", "u", "v", "w", "x", "y", "z">>

\* str.lower() on one character
LowerChar(c) ==
    IF \E k \in 1..Len(UpperCase) : UpperCase[k] = c
    THEN LowerCase[CHOOSE k \in 1..Len(UpperCase) : UpperCase[k] = c]
    ELSE c

\* str.lower()
Lower(s) == [k \in 1..Len(s) |-> LowerChar(s[k])]

\* Python's `word in text` on strings: word is a substring of text
Contains(text, word) ==
    \E k \in 0..(Len(text) - Len(word)) :
        \A j \in 1..Len(word) : text[k + j] = word[j]

\* s[:n]
Take(s, n) == IF Len(s) <= n THEN s ELSE SubSeq(s, 1, n)

\* a faulty variant of needs_web_search, which C14 must reject: the answer
\* also depends on what the store holds
needs_web_search_stored(query) ==
    \/ \E n \in 1..Len(Indicators) : Contains(Lower(query), Indicators[n])
    \/ conversations # <<>>

\* needs_web_search(query)
needs_web_search(query) ==
    \E n \in 1..Len(Indicators) : Contains(Lower(query), Indicators[n])

----------------------------------------------------------------------------
(* Inputs: what the user types and what the outside world answers *)

\* messages the user sends (already stripped, not empty)
Queries == { <<"h", "i">>, <<"N", "o", "w">> }

\* characters of a reply, by position
Alphabet == <<"a", "b", "c", "d", "e", "f", "g", "h">>

\* response["message"]["content"] of a successful ollama.chat: n characters
Reply(n) == [k \in 1..n |-> Alphabet[k]]

\* the lengths of the texts a model may answer with
ReplyLens == 0..MaxLen

\* data["Abstract"][:150] of a successful web search
WebAbstract == <<"w">>

----------------------------------------------------------------------------
(* Events on the message queue: (message_type, data) *)

Event(type, data) == [type |-> type, data |-> data]

StatusThinking   == Event("status", <<"Thinking...">>)
StatusSearching  == Event("status", <<"Searching web...">>)
StatusGenerating == Event("status", <<"Generating response...">>)
\* a faulty variant of StartStream, which the grammar of C1 must reject: the
\* worker announces the stream with a character
StartStreamAsChar == Event("char", <<"a">>)

StartStream      == Event("start_stream", <<>>)
CharEvent(c)     == Event("char", <<c>>)
Complete(text)   == Event("complete", text)
ErrorNoModels    == Event("error", <<"No Ollama models available">>)
ErrorException   == Event("error", <<"I encountered an error">>)

\* the events of one type in a sequence of events
OfType(evs, type) == SelectSeq(evs, LAMBDA e : e.type = type)

----------------------------------------------------------------------------
(* Threads *)

TurnIds == 1..MaxTurns

\* a Thread object that was never created
NoThread ==
    [ pc             |-> "none",
      user_query     |-> <<>>,
      context_future |-> "none",   \* "none", "pending", "done"
      context_result |-> <<>>,
      web_future     |-> "none",
      web_result     |-> <<>>,
      context        |-> <<>>,
      web_info       |-> <<>>,
      prompts        |-> <<>>,     \* <<>> or <<system_prompt>>
      model          |-> 0,        \* position of the for-loop in the model list
      response       |-> <<>>,     \* <<>> is None, else <<full_response>>
      i              |-> 0,        \* characters of the text streamed so far
      j              |-> 0,        \* characters of the fallback text streamed so far
      sent           |-> <<>>,     \* history: the events this worker has emitted
      calls          |-> <<>>,     \* history: the ollama.chat calls it has made
      stopped_at     |-> -1,       \* history: "char" events emitted when stop_event was set
      cancelled      |-> FALSE,    \* history: the streaming loop saw stop_event and broke
      fallback       |-> FALSE,    \* history: the except branch of HandeAI ran
      saved          |-> FALSE,    \* history: the row of this turn has been written
      crashed        |-> FALSE,    \* history: an exception ended the thread
      origin         |-> 0 ]       \* history: current_conversation_id at start()

\* threading.Thread(target=..., args=(message, ...)) after start()
NewThread(message) ==
    [NoThread EXCEPT !.pc = "start", !.user_query = message,
                     !.origin = current_conversation_id]

\* Thread.is_alive()
is_alive(t) == t # 0 /\ threads[t].pc \notin {"none", "done"}

\* message_queue.put(ev) by worker t (sent keeps what t has put)
Put(t, ev, next) ==
    /\ message_queue' = Append(message_queue, ev)
    /\ threads' = [threads EXCEPT ![t].sent = Append(@, ev), ![t].pc = next]

\* a row of table conversations
Row(cid, user_msg, ai_response) ==
    [conversation_id |-> cid, user_message |-> user_msg, ai_response |-> ai_response]

\* a row of table conversation_sessions (Hande.py has no message_count column)
Session(id, title, count) == [id |-> id, title |-> title, message_count |-> count]

\* create_new_conversation(): title of a new session
NewChatTitle == <<"N", "e", "w", " ", "C", "h", "a", "t">>

\* ThreadSafeHandeGUI.__init__ leaves current_conversation_id None;
\* HandeGUI.__init__ calls create_new_conversation().  The database is new.
\* no context assembly is being timed
NoTiming ==
    [ pc              |-> "off",
      now             |-> 0,     \* the clock, in half seconds
      started         |-> 0,     \* when generate_response_streaming was entered
      wait_began      |-> 0,     \* when the current result(timeout=...) was called
      context_done_at |-> -1,    \* when get_conversation_context returns
      web_done_at     |-> -1,    \* when search_web_fast returns; -1: not submitted
      has_context     |-> FALSE, \* conversation_history was read from the future
      has_web         |-> FALSE, \* search_results was read from the future
      returned_at     |-> -1 ]   \* when the context assembly was over

\* an executor thread that runs no save
IdleWorker ==
    [ pc            |-> "idle",
      user_msg      |-> <<>>,
      ai_response   |-> <<>>,
      message_count |-> -1 ]    \* result of SELECT message_count; -1: not read

\* the connection when its statements are not followed one by one
NoConnection ==
    [ in_transaction     |-> FALSE,  \* sqlite3.Connection.in_transaction
      committed_rows     |-> <<>>,   \* table conversations as last committed
      committed_sessions |-> {},     \* table conversation_sessions as last committed
      workers            |-> [k \in 1..FastMaxWorkers |-> IdleWorker],
      ui                 |-> [pc |-> "idle", conversation_id |-> 0],
      submitted          |-> 0,      \* saves handed to the executor so far
      returned           |-> 0,      \* saves that ran to the end of their try block
      failed             |-> 0 ]     \* saves that went through their except block

Init ==
    /\ connection = NoConnection
    /\ timing = NoTiming
    /\ app \in {SafeApp, FastApp}
    /\ threads = [t \in TurnIds |-> NoThread]
    /\ response_thread = 0
    /\ stop_event = FALSE
    /\ message_queue = <<>>
    /\ tasks = <<>>
    /\ conversations = <<>>
    /\ IF app = SafeApp
       THEN /\ current_conversation_id = 0
            /\ uuids = 0
            /\ conversation_sessions = {}
       ELSE /\ current_conversation_id = 1
            /\ uuids = 1
            /\ conversation_sessions = { Session(1, NewChatTitle, 0) }

\* what hande_memory.db holds when a turn starts in a used application:
\* nothing, or one conversation of one turn
StoredRows(pre) == IF pre THEN << Row(1, <<"h", "i">>, Reply(1)) >> ELSE <<>>

StoredSessions(pre) ==
    IF pre THEN { Session(1, <<"h", "i">>, IF app = SafeApp THEN 0 ELSE 1) } ELSE {}

\* The state in which a turn starts: as Init, but the database may hold an
\* earlier conversation and the sidebar may have loaded it.
TurnInit ==
    /\ connection = NoConnection
    /\ timing = NoTiming
    /\ app \in {SafeApp, FastApp}
    /\ threads = [t \in TurnIds |-> NoThread]
    /\ response_thread = 0
    /\ stop_event = FALSE
    /\ message_queue = <<>>
    /\ tasks = <<>>
    /\ \E pre \in BOOLEAN :
          LET n == IF pre THEN 1 ELSE 0 IN
          /\ conversations = StoredRows(pre)
          /\ IF app = SafeApp
             THEN /\ current_conversation_id \in 0..n
                  /\ uuids = n
                  /\ conversation_sessions = StoredSessions(pre)
             ELSE /\ current_conversation_id \in {1, n + 1}
                  /\ uuids = n + 1
                  /\ conversation_sessions =
                        StoredSessions(pre) \cup { Session(n + 1, NewChatTitle, 0) }

----------------------------------------------------------------------------
(* ThreadSafeHandeAI.generate_response_safe, one action per step *)

\* message_queue.put(("status", "Thinking..."))
SafeThinking(t) ==
    /\ app = SafeApp
    /\ threads[t].pc = "start"
    /\ Put(t, StatusThinking, "check_web")
    /\ UNCHANGED << app, timing, connection, response_thread, stop_event,
                    current_conversation_id, uuids, tasks, conversations,
                    conversation_sessions >>

\* if self.needs_web_search(user_query): put status
SafeCheckWeb(t) ==
    /\ app = SafeApp
    /\ threads[t].pc = "check_web"
    /\ IF needs_web_search(threads[t].user_query)
       THEN Put(t, StatusSearching, "search")
       ELSE /\ threads' = [threads EXCEPT ![t].pc = "prompt"]
            /\ UNCHANGED message_queue
    /\ UNCHANGED << app, timing, connection, response_thread, stop_event,
                    current_conversation_id, uuids, tasks, conversations,
                    conversation_sessions >>

\* search_web_fast(query): the abstract, or "" on any failure
search_web_fast_safe == { <<>>, WebAbstract }

\* web_info = self.search_web_fast(user_query)
SafeSearchWeb(t) ==
    /\ app = SafeApp
    /\ threads[t].pc = "search"
    /\ \E r \in search_web_fast_safe :
          threads' = [threads EXCEPT ![t].web_info = r, ![t].pc = "prompt"]
    /\ UNCHANGED << app, timing, connection, response_thread, stop_event, message_queue,
                    current_conversation_id, uuids, tasks, conversations,
                    conversation_sessions >>

\* the sections of the system prompt that depend on the lookups
SystemPrompt(context, web_info) == [context |-> context, web_info |-> web_info]

\* system_prompt = ...; message_queue.put(("status", "Generating response..."))
SafeGenerating(t) ==
    /\ app = SafeApp
    /\ threads[t].pc = "prompt"
    /\ message_queue' = Append(message_queue, StatusGenerating)
    /\ threads' = [threads EXCEPT
                     ![t].sent = Append(@, StatusGenerating),
                     ![t].prompts = <<SystemPrompt(<<>>, threads[t].web_info)>>,
                     ![t].model = 1,
                     ![t].pc = "chat"]
    /\ UNCHANGED << app, timing, connection, response_thread, stop_event,
                    current_conversation_id, uuids, tasks, conversations,
                    conversation_sessions >>

\* where the for-loop over the models goes after the call on Models[m]:
\* break on success, continue on an exception, fall out after the last one
\* a faulty variant of AfterChat, which C6 must reject: the loop has no break
AfterChatWithoutBreak(m, ok) ==
    IF m < Len(Models) THEN "chat"
    ELSE IF ok THEN (IF app = SafeApp THEN "got_response" ELSE "poll")
    ELSE "no_response"

AfterChat(m, ok) ==
    IF ok THEN (IF app = SafeApp THEN "got_response" ELSE "poll")
    ELSE IF m < Len(Models) THEN "chat" ELSE "no_response"

\* one iteration of `for model in models: try: response = ollama.chat(...)`
Chat(t) ==
    /\ threads[t].pc = "chat"
    /\ LET m == threads[t].model IN
       \E ok \in BOOLEAN : \E n \in IF ok THEN ReplyLens ELSE {0} :
          /\ threads' = [threads EXCEPT
                ![t].calls = Append(@, [model |-> Models[m], ok |-> ok,
                                        reply |-> Reply(n),
                                        prompt |-> threads[t].prompts[1],
                                        stopped |-> stop_event]),
                ![t].response = IF ok THEN <<Reply(n)>> ELSE @,
                ![t].model = IF ok THEN m ELSE m + 1,
                ![t].pc = AfterChat(m, ok)]
    /\ UNCHANGED << app, timing, connection, response_thread, stop_event, message_queue,
                    current_conversation_id, uuids, tasks, conversations,
                    conversation_sessions >>

\* if not response: message_queue.put(("error", ...)); return
SafeNoModels(t) ==
    /\ app = SafeApp
    /\ threads[t].pc = "no_response"
    /\ Put(t, ErrorNoModels, "done")
    /\ UNCHANGED << app, timing, connection, response_thread, stop_event,
                    current_conversation_id, uuids, tasks, conversations,
                    conversation_sessions >>

\* full_response = response["message"]["content"]; put(("start_stream", ""))
SafeStartStream(t) ==
    /\ app = SafeApp
    /\ threads[t].pc = "got_response"
    /\ Put(t, StartStream, "poll")
    /\ UNCHANGED << app, timing, connection, response_thread, stop_event,
                    current_conversation_id, uuids, tasks, conversations,
                    conversation_sessions >>

\* where the streaming loop goes at the top of an iteration:
\* the loop ends after the last character, and breaks when the event is set
AfterPoll(i, text, stop) ==
    IF i >= Len(text) THEN "after_loop"
    ELSE IF stop THEN "after_loop" ELSE "emit"

\* for char in full_response: if stop_event.is_set(): break
Poll(t) ==
    /\ threads[t].pc = "poll"
    /\ LET next == AfterPoll(threads[t].i, threads[t].response[1], stop_event) IN
       threads' = [threads EXCEPT
          ![t].pc = next,
          ![t].cancelled = (next = "after_loop" /\ threads[t].i < Len(threads[t].response[1]))]
    /\ UNCHANGED << app, timing, connection, response_thread, stop_event, message_queue,
                    current_conversation_id, uuids, tasks, conversations,
                    conversation_sessions >>

\* message_queue.put(("char", char)); time.sleep(0.005)
SafePutChar(t) ==
    /\ app = SafeApp
    /\ threads[t].pc = "emit"
    /\ LET ev == CharEvent(threads[t].response[1][threads[t].i + 1]) IN
       /\ message_queue' = Append(message_queue, ev)
       /\ threads' = [threads EXCEPT ![t].sent = Append(@, ev),
                                     ![t].i = @ + 1,
                                     ![t].pc = "poll"]
    /\ UNCHANGED << app, timing, connection, response_thread, stop_event,
                    current_conversation_id, uuids, tasks, conversations,
                    conversation_sessions >>

\* message_queue.put(("complete", full_response))
SafeComplete(t) ==
    /\ app = SafeApp
    /\ threads[t].pc = "after_loop"
    /\ Put(t, Complete(threads[t].response[1]), "save")
    /\ UNCHANGED << app, timing, connection, response_thread, stop_event,
                    current_conversation_id, uuids, tasks, conversations,
                    conversation_sessions >>

\* a unit of work handed to the executor
Task(fn, t, user_msg, ai_response) ==
    [fn |-> fn, thread |-> t, user_msg |-> user_msg, ai_response |-> ai_response]

\* if not self.current_conversation_id: self.current_conversation_id = uuid4()[:8]
EnsureConversation ==
    IF current_conversation_id = 0
    THEN /\ current_conversation_id' = uuids + 1
         /\ uuids' = uuids + 1
    ELSE UNCHANGED << current_conversation_id, uuids >>

\* self.save_conversation_async(user_query, full_response): the task is queued
SafeSaveAsync(t) ==
    /\ app = SafeApp
    /\ threads[t].pc = "save"
    /\ EnsureConversation
    /\ threads' = [threads EXCEPT ![t].pc = "done"]
    /\ tasks' = Append(tasks, Task("_save_to_db", t,
                       threads[t].user_query, threads[t].response[1]))
    /\ UNCHANGED << app, timing, connection, response_thread, stop_event, message_queue,
                    conversations, conversation_sessions >>

\* self.save_conversation_async(...): executor.submit raises RuntimeError (no
\* thread can be started, or the interpreter is shutting down); the handler
\* of generate_response_safe catches it
SafeSaveAsyncRaises(t) ==
    /\ app = SafeApp
    /\ threads[t].pc = "save"
    /\ EnsureConversation
    /\ threads' = [threads EXCEPT ![t].pc = "except"]
    /\ UNCHANGED << app, timing, connection, response_thread, stop_event, message_queue,
                    tasks, conversations, conversation_sessions >>

\* except Exception as e: message_queue.put(("error", error_msg))
SafeExcept(t) ==
    /\ app = SafeApp
    /\ threads[t].pc = "except"
    /\ Put(t, ErrorException, "done")
    /\ UNCHANGED << app, timing, connection, response_thread, stop_event,
                    current_conversation_id, uuids, tasks, conversations,
                    conversation_sessions >>

----------------------------------------------------------------------------
(* HandeAI.generate_response_streaming, one action per step *)

\* the text streamed by the except branch ("Quick response mode active! ..."),
\* shortened to its first character
FallbackText == <<"Q">>

\* an exception nobody catches ends the thread
Crash(t) == [threads EXCEPT ![t].pc = "done", ![t].crashed = TRUE]

\* context_future = self.executor.submit(self.get_conversation_context, 2)
FastSubmitContext(t) ==
    /\ app = FastApp
    /\ threads[t].pc = "start"
    /\ threads' = [threads EXCEPT
          ![t].context_future = "pending",
          ![t].pc = IF needs_web_search(threads[t].user_query)
                    THEN "submit_web" ELSE "wait_context"]
    /\ tasks' = Append(tasks, Task("get_conversation_context", t, <<>>, <<>>))
    /\ UNCHANGED << app, timing, connection, response_thread, stop_event, message_queue,
                    current_conversation_id, uuids, conversations,
                    conversation_sessions >>

\* executor.submit raises RuntimeError before the try block: nothing catches it
FastSubmitRaises(t) ==
    /\ app = FastApp
    /\ threads[t].pc \in {"start", "submit_web"}
    /\ threads' = Crash(t)
    /\ UNCHANGED << app, timing, connection, response_thread, stop_event, message_queue,
                    current_conversation_id, uuids, tasks, conversations,
                    conversation_sessions >>

\* web_future = self.executor.submit(self.search_web_fast, user_query)
FastSubmitWeb(t) ==
    /\ app = FastApp
    /\ threads[t].pc = "submit_web"
    /\ threads' = [threads EXCEPT ![t].web_future = "pending",
                                  ![t].pc = "wait_context"]
    /\ tasks' = Append(tasks, Task("search_web_fast", t, <<>>, <<>>))
    /\ UNCHANGED << app, timing, connection, response_thread, stop_event, message_queue,
                    current_conversation_id, uuids, conversations,
                    conversation_sessions >>

\* for user_msg, ai_msg in conversation_history[-1:]: context += "Previous: ..."
ContextOf(history) ==
    IF history = <<>> THEN <<>>
    ELSE LET last == history[Len(history)] IN
         << [user_message |-> Take(last.user_message, 40),
             ai_response  |-> Take(last.ai_response, 40)] >>

\* if search_results: web_info = f"Current: {search_results[0][:150]}"
WebInfoOf(search_results) ==
    IF search_results = <<>> THEN <<>> ELSE Take(search_results[1], 150)

\* Future.result(timeout=...): the result when the future is done, else
\* TimeoutError, which the caller turns into "no context"
Arrived(future, result) == IF future = "done" THEN result ELSE <<>>

\* conversation_history = context_future.result(timeout=0.5)
FastWaitContext(t) ==
    /\ app = FastApp
    /\ threads[t].pc = "wait_context"
    /\ LET th == threads[t]
           context == ContextOf(Arrived(th.context_future, th.context_result)) IN
       threads' = [threads EXCEPT
          ![t].context_future = "none",
          ![t].context_result = <<>>,
          ![t].context = context,
          ![t].prompts = IF th.web_future = "none"
                         THEN <<SystemPrompt(context, <<>>)>> ELSE @,
          ![t].model = IF th.web_future = "none" THEN 1 ELSE @,
          ![t].pc = IF th.web_future = "none" THEN "chat" ELSE "wait_web"]
    /\ UNCHANGED << app, timing, connection, response_thread, stop_event, message_queue,
                    current_conversation_id, uuids, tasks, conversations,
                    conversation_sessions >>

\* search_results = web_future.result(timeout=1.0)
FastWaitWeb(t) ==
    /\ app = FastApp
    /\ threads[t].pc = "wait_web"
    /\ LET th == threads[t]
           web_info == WebInfoOf(Arrived(th.web_future, th.web_result)) IN
       threads' = [threads EXCEPT
          ![t].web_future = "none",
          ![t].web_result = <<>>,
          ![t].web_info = web_info,
          ![t].prompts = <<SystemPrompt(th.context, web_info)>>,
          ![t].model = 1,
          ![t].pc = "chat"]
    /\ UNCHANGED << app, timing, connection, response_thread, stop_event, message_queue,
                    current_conversation_id, uuids, tasks, conversations,
                    conversation_sessions >>

\* if not response: raise Exception("No available models"), caught below
FastNoModels(t) ==
    /\ app = FastApp
    /\ threads[t].pc = "no_response"
    /\ threads' = [threads EXCEPT ![t].pc = "fallback_poll", ![t].fallback = TRUE]
    /\ UNCHANGED << app, timing, connection, response_thread, stop_event, message_queue,
                    current_conversation_id, uuids, tasks, conversations,
                    conversation_sessions >>

\* time.sleep(0.005); callback(char)
FastCallback(t) ==
    /\ app = FastApp
    /\ threads[t].pc = "emit"
    /\ threads' = [threads EXCEPT
          ![t].sent = Append(@, CharEvent(threads[t].response[1][threads[t].i + 1])),
          ![t].i = @ + 1,
          ![t].pc = "poll"]
    /\ UNCHANGED << app, timing, connection, response_thread, stop_event, message_queue,
                    current_conversation_id, uuids, tasks, conversations,
                    conversation_sessions >>

\* self.executor.submit(self.save_conversation, user_query, full_response)
FastSubmitSave(t) ==
    /\ app = FastApp
    /\ threads[t].pc = "after_loop"
    /\ threads' = [threads EXCEPT ![t].pc = "done"]
    /\ tasks' = Append(tasks, Task("save_conversation", t,
                       threads[t].user_query, threads[t].response[1]))
    /\ UNCHANGED << app, timing, connection, response_thread, stop_event, message_queue,
                    current_conversation_id, uuids, conversations,
                    conversation_sessions >>

\* self.executor.submit(self.save_conversation, ...) raises RuntimeError inside
\* the try block: the except branch runs
FastSubmitSaveRaises(t) ==
    /\ app = FastApp
    /\ threads[t].pc = "after_loop"
    /\ threads' = [threads EXCEPT ![t].pc = "fallback_poll", ![t].fallback = TRUE]
    /\ UNCHANGED << app, timing, connection, response_thread, stop_event, message_queue,
                    current_conversation_id, uuids, tasks, conversations,
                    conversation_sessions >>

\* except: for char in fallback: if stop_event.is_set(): break
FastFallbackPoll(t) ==
    /\ app = FastApp
    /\ threads[t].pc = "fallback_poll"
    /\ threads' = [threads EXCEPT ![t].pc =
          IF threads[t].j >= Len(FallbackText) \/ stop_event
          THEN "done" ELSE "fallback_emit"]
    /\ UNCHANGED << app, timing, connection, response_thread, stop_event, message_queue,
                    current_conversation_id, uuids, tasks, conversations,
                    conversation_sessions >>

\* time.sleep(0.01); callback(char)
FastFallbackCallback(t) ==
    /\ app = FastApp
    /\ threads[t].pc = "fallback_emit"
    /\ threads' = [threads EXCEPT
          ![t].sent = Append(@, CharEvent(FallbackText[threads[t].j + 1])),
          ![t].j = @ + 1,
          ![t].pc = "fallback_poll"]
    /\ UNCHANGED << app, timing, connection, response_thread, stop_event, message_queue,
                    current_conversation_id, uuids, tasks, conversations,
                    conversation_sessions >>

----------------------------------------------------------------------------
(* The executor and the store *)

\* the tasks the executor's threads may be running: the first MaxWorkers
Runnable == 1..(IF Len(tasks) < MaxWorkers THEN Len(tasks) ELSE MaxWorkers)

\* q without its k-th element
Without(q, k) == SubSeq(q, 1, k - 1) \o SubSeq(q, k + 1, Len(q))

\* SELECT ... FROM conversations WHERE conversation_id = ? ORDER BY id
RowsOf(cid) == SelectSeq(conversations, LAMBDA r : r.conversation_id = cid)

\* the last n elements of q
LastN(q, n) == IF Len(q) <= n THEN q ELSE SubSeq(q, Len(q) - n + 1, Len(q))

\* a faulty variant of get_conversation_context, which C23 must reject: the
\* SELECT has no WHERE conversation_id = ?
get_conversation_context_unfiltered(limit) ==
    IF current_conversation_id = 0 THEN <<>>
    ELSE LastN(conversations, limit)

\* HandeAI.get_conversation_context(limit): ORDER BY id DESC LIMIT ?, reversed
get_conversation_context(limit) ==
    IF current_conversation_id = 0 THEN <<>>
    ELSE LastN(RowsOf(current_conversation_id), limit)

\* title = user_msg[:30] + "..." if len(user_msg) > 30 else user_msg
TitleOf(user_msg) ==
    IF Len(user_msg) > TitleLen
    THEN Take(user_msg, TitleLen) \o <<".", ".", ".">> ELSE user_msg

\* the Thread objects once the row of turn t is in the table
Saved(t) ==
    IF threads[t].pc = "none" THEN threads ELSE [threads EXCEPT ![t].saved = TRUE]

\* ThreadSafeHandeAI._save_to_db: INSERT the row, INSERT OR REPLACE the session, commit
save_to_db(k) ==
    /\ app = SafeApp
    /\ k \in Runnable
    /\ tasks[k].fn = "_save_to_db"
    /\ tasks' = Without(tasks, k)
    /\ LET cid == current_conversation_id IN
       /\ conversations' = Append(conversations,
             Row(cid, tasks[k].user_msg, tasks[k].ai_response))
       /\ conversation_sessions' =
             { s \in conversation_sessions : s.id # cid }
             \cup { Session(cid, Take(tasks[k].user_msg, TitleLen), 0) }
    /\ threads' = Saved(tasks[k].thread)
    /\ UNCHANGED << app, timing, connection, response_thread, stop_event, message_queue,
                    current_conversation_id, uuids >>

\* UPDATE conversation_sessions SET message_count = message_count + 1 WHERE id = ?
\* and, when the count is then 1, SET title = ?
Appended(s, user_msg) ==
    [s EXCEPT !.message_count = @ + 1,
              !.title = IF s.message_count + 1 = 1 THEN TitleOf(user_msg) ELSE @]

\* HandeAI.save_conversation: INSERT the row, UPDATE the session, COMMIT
save_conversation(k) ==
    /\ app = FastApp
    /\ k \in Runnable
    /\ tasks[k].fn = "save_conversation"
    /\ tasks' = Without(tasks, k)
    /\ LET cid == current_conversation_id IN
       /\ conversations' = Append(conversations,
             Row(cid, tasks[k].user_msg, tasks[k].ai_response))
       /\ conversation_sessions' =
             { IF s.id = cid THEN Appended(s, tasks[k].user_msg) ELSE s :
               s \in conversation_sessions }
    /\ threads' = Saved(tasks[k].thread)
    /\ UNCHANGED << app, timing, connection, response_thread, stop_event, message_queue,
                    current_conversation_id, uuids >>

\* a save fails with a database error before it has written anything:
\* _save_to_db prints it, save_conversation rolls back
save_fails(k) ==
    /\ k \in Runnable
    /\ tasks[k].fn \in {"_save_to_db", "save_conversation"}
    /\ tasks' = Without(tasks, k)
    /\ UNCHANGED << app, timing, connection, threads, response_thread, stop_event,
                    message_queue, current_conversation_id, uuids,
                    conversations, conversation_sessions >>

\* a faulty variant of Resolve, which C10 must reject: the result of the
\* conversation lookup goes into the context whenever it arrives
ResolveIntoContext(t, future, result, value) ==
    [threads EXCEPT ![t].context =
        IF future = "context_future" /\ threads[t].pc # "none"
        THEN ContextOf(value) ELSE @]

\* the future of a lookup is resolved; a future that its thread has stopped
\* waiting for is referenced by nobody and its result is lost
Resolve(t, future, result, value) ==
    IF threads[t][future] # "pending" THEN threads
    ELSE [threads EXCEPT ![t][future] = "done", ![t][result] = value]

\* the executor runs get_conversation_context(2)
run_get_conversation_context(k) ==
    /\ app = FastApp
    /\ k \in Runnable
    /\ tasks[k].fn = "get_conversation_context"
    /\ tasks' = Without(tasks, k)
    /\ threads' = Resolve(tasks[k].thread, "context_future", "context_result",
                          get_conversation_context(2))
    /\ UNCHANGED << app, timing, connection, response_thread, stop_event, message_queue,
                    current_conversation_id, uuids, conversations,
                    conversation_sessions >>

\* get_conversation_context(2) hits a database error: except Exception: return []
get_conversation_context_fails(k) ==
    /\ app = FastApp
    /\ k \in Runnable
    /\ tasks[k].fn = "get_conversation_context"
    /\ tasks' = Without(tasks, k)
    /\ threads' = Resolve(tasks[k].thread, "context_future", "context_result", <<>>)
    /\ UNCHANGED << app, timing, connection, response_thread, stop_event, message_queue,
                    current_conversation_id, uuids, conversations,
                    conversation_sessions >>

\* HandeAI.search_web_fast(query): the results, or [] on any failure
search_web_fast == { <<>>, <<WebAbstract>> }

\* the executor runs search_web_fast(user_query)
run_search_web_fast(k) ==
    /\ app = FastApp
    /\ k \in Runnable
    /\ tasks[k].fn = "search_web_fast"
    /\ tasks' = Without(tasks, k)
    /\ \E results \in search_web_fast :
          threads' = Resolve(tasks[k].thread, "web_future", "web_result", results)
    /\ UNCHANGED << app, timing, connection, response_thread, stop_event, message_queue,
                    current_conversation_id, uuids, conversations,
                    conversation_sessions >>

----------------------------------------------------------------------------
(* The UI thread *)

\* ThreadSafeHandeGUI.send_message() while the previous worker is alive: return
SafeSendRejected(message) ==
    /\ app = SafeApp
    /\ is_alive(response_thread)
    /\ UNCHANGED vars

\* the Thread objects after a new one is started for turn id; the records of
\* threads that have ended are dropped
Started(id, message) ==
    [t \in TurnIds |->
        IF t = id THEN NewThread(message)
        ELSE IF is_alive(t) THEN threads[t] ELSE NoThread]

\* ThreadSafeHandeGUI.send_message(): clear the queue, clear the event, start the worker
SafeSendMessage(message, turns) ==
    /\ app = SafeApp
    /\ ~is_alive(response_thread)
    /\ response_thread < turns
    /\ message_queue' = <<>>
    /\ stop_event' = FALSE
    /\ response_thread' = response_thread + 1
    /\ threads' = Started(response_thread + 1, message)
    /\ UNCHANGED << app, timing, connection, current_conversation_id, uuids, tasks,
                    conversations, conversation_sessions >>

\* HandeGUI.send_message(): clear the event, start the worker
FastSendMessage(message, turns) ==
    /\ app = FastApp
    /\ response_thread < turns
    /\ stop_event' = FALSE
    /\ response_thread' = response_thread + 1
    /\ threads' = Started(response_thread + 1, message)
    /\ UNCHANGED << app, timing, connection, message_queue, current_conversation_id,
                    uuids, tasks, conversations, conversation_sessions >>

\* the number of "char" events thread t has emitted so far
CharsSent(t) == Len(OfType(threads[t].sent, "char"))

\* stop_response(): if self.response_thread.is_alive(): self.stop_event.set()
stop_response ==
    /\ is_alive(response_thread)
    /\ stop_event' = TRUE
    /\ threads' = [t \in TurnIds |->
          IF is_alive(t) /\ threads[t].stopped_at = -1
          THEN [threads[t] EXCEPT !.stopped_at = CharsSent(t)]
          ELSE threads[t]]
    /\ UNCHANGED << app, timing, connection, response_thread, message_queue,
                    current_conversation_id, uuids, tasks, conversations,
                    conversation_sessions >>

\* process_message_queue(): take every queued message, in order
process_message_queue ==
    /\ app = SafeApp
    /\ message_queue # <<>>
    /\ message_queue' = <<>>
    /\ UNCHANGED << app, timing, connection, threads, response_thread, stop_event,
                    current_conversation_id, uuids, tasks, conversations,
                    conversation_sessions >>

----------------------------------------------------------------------------

SafeWorker(t) ==
    \/ SafeThinking(t)
    \/ SafeCheckWeb(t)
    \/ SafeSearchWeb(t)
    \/ SafeGenerating(t)
    \/ SafeNoModels(t)
    \/ SafeStartStream(t)
    \/ SafePutChar(t)
    \/ SafeComplete(t)
    \/ SafeSaveAsync(t)

FastWorker(t) ==
    \/ FastSubmitContext(t)
    \/ FastSubmitWeb(t)
    \/ FastWaitContext(t)
    \/ FastWaitWeb(t)
    \/ FastNoModels(t)
    \/ FastCallback(t)
    \/ FastSubmitSave(t)
    \/ FastFallbackPoll(t)
    \/ FastFallbackCallback(t)

Executor(k) ==
    \/ save_to_db(k)
    \/ save_conversation(k)
    \/ run_get_conversation_context(k)
    \/ run_search_web_fast(k)

\* the steps of the system while the user starts at most `turns` turns and
\* the executor and the database work
Step(turns) ==
    \/ \E t \in TurnIds : SafeWorker(t) \/ FastWorker(t) \/ Chat(t) \/ Poll(t)
    \/ \E k \in 1..FastMaxWorkers : Executor(k)
    \/ \E message \in Queries : SafeSendMessage(message, turns)
    \/ \E message \in Queries : SafeSendRejected(message)
    \/ \E message \in Queries : FastSendMessage(message, turns)
    \/ stop_response
    \/ process_message_queue

\* the failures of the executor and of the database
Fault ==
    \/ \E t \in TurnIds : \/ SafeSaveAsyncRaises(t)
                           \/ SafeExcept(t)
                           \/ FastSubmitRaises(t)
                           \/ FastSubmitSaveRaises(t)
    \/ \E k \in 1..FastMaxWorkers : save_fails(k) \/ get_conversation_context_fails(k)

Next == Step(MaxTurns)

\* the application from its start, over MaxTurns turns
Spec == Init /\ [][Next]_vars

TurnNext == Step(1) \/ Fault

\* one turn of a used application, failures of executor and database included
TurnSpec == TurnInit /\ [][TurnNext]_vars

\* the sidebar lists the sessions that the connection sees (get_conversations)
Listed == { s.id : s \in conversation_sessions }

\* "New Chat" as one step: create_new_conversation() makes a new uuid the
\* current conversation and, in HandeGUI, inserts and commits its session row
new_chat ==
    /\ uuids < MaxChats + 1
    /\ uuids' = uuids + 1
    /\ current_conversation_id' = uuids + 1
    /\ conversation_sessions' =
          IF app = SafeApp THEN conversation_sessions
          ELSE conversation_sessions \cup { Session(uuids + 1, NewChatTitle, 0) }
    /\ UNCHANGED << app, timing, connection, threads, response_thread, stop_event,
                    message_queue, tasks, conversations >>

\* a click on a chat of the sidebar: load_conv(cid) in Hande.py,
\* HandeAI.load_conversation(cid) in Hande_GUI.py
load_conversation(cid) ==
    /\ cid \in Listed
    /\ cid # current_conversation_id
    /\ current_conversation_id' = cid
    /\ UNCHANGED << app, timing, connection, threads, response_thread, stop_event,
                    message_queue, uuids, tasks, conversations, conversation_sessions >>

\* what the user does in the sidebar
Sidebar == new_chat \/ \E cid \in 1..(MaxChats + 1) : load_conversation(cid)

SessionNext == Step(1) \/ Sidebar

\* one turn from a used database while the user also works in the sidebar
SessionSpec == TurnInit /\ [][SessionNext]_vars

\* the next step of the thread of turn t: its code runs on, whatever the
\* calls it makes return
WorkerStep(t) ==
    SafeWorker(t) \/ FastWorker(t) \/ Chat(t) \/ Poll(t) \/ SafeExcept(t)

\* one turn with the threads scheduled fairly: a worker thread that can take
\* its next step takes it, and the executor runs the tasks it was given
LiveSpec ==
    /\ TurnSpec
    /\ \A t \in TurnIds : WF_vars(WorkerStep(t))
    /\ WF_vars(\E k \in 1..FastMaxWorkers : Executor(k))

----------------------------------------------------------------------------
(* The context assembly of HandeAI.generate_response_streaming with a clock.
   Time passes only while the worker waits in result(timeout=...); the wait
   returns as soon as the future is done or the timeout has passed. A lookup
   takes any time up to MaxDelay from its submission, queueing included. *)

\* the last instant the clock reaches
Horizon == ContextTimeout + WebTimeout + MaxDelay

TimedInit ==
    /\ connection = NoConnection
    /\ app = FastApp
    /\ threads = [t \in TurnIds |-> NoThread]
    /\ response_thread = 0
    /\ stop_event = FALSE
    /\ message_queue = <<>>
    /\ tasks = <<>>
    /\ conversations = <<>>
    /\ current_conversation_id = 1
    /\ uuids = 1
    /\ conversation_sessions = { Session(1, NewChatTitle, 0) }
    /\ timing = [NoTiming EXCEPT !.pc = "idle"]

\* executor.submit(self.get_conversation_context, 2) and, if
\* needs_web_search(user_query), executor.submit(self.search_web_fast, ...)
TimedSubmit(message) ==
    /\ timing.pc = "idle"
    /\ \E context_delay \in 0..MaxDelay : \E web_delay \in 0..MaxDelay :
          /\ ~needs_web_search(message) => web_delay = 0
          /\ timing' = [timing EXCEPT
                !.pc = "wait_context",
                !.started = timing.now,
                !.wait_began = timing.now,
                !.context_done_at = timing.now + context_delay,
                !.web_done_at = IF needs_web_search(message)
                                THEN timing.now + web_delay ELSE -1]
    /\ UNCHANGED untimed

\* Future.done() at the present instant
IsDone(done_at) == done_at >= 0 /\ done_at <= timing.now

\* result(timeout=timeout) returns now: with the result or with TimeoutError
Returns(done_at, timeout) ==
    IsDone(done_at) \/ timing.now >= timing.wait_began + timeout

\* one half second passes while the worker waits
Tick ==
    /\ timing.now < Horizon
    /\ \/ timing.pc = "wait_context" /\ ~Returns(timing.context_done_at, ContextTimeout)
       \/ timing.pc = "wait_web" /\ ~Returns(timing.web_done_at, WebTimeout)
    /\ timing' = [timing EXCEPT !.now = @ + 1]
    /\ UNCHANGED untimed

\* conversation_history = context_future.result(timeout=0.5) returns or times
\* out; `if web_future:` then decides whether there is a second wait
TimedWaitContext ==
    /\ timing.pc = "wait_context"
    /\ Returns(timing.context_done_at, ContextTimeout)
    /\ timing' = [timing EXCEPT
          !.has_context = IsDone(timing.context_done_at),
          !.wait_began = timing.now,
          !.pc = IF timing.web_done_at = -1 THEN "returned" ELSE "wait_web",
          !.returned_at = IF timing.web_done_at = -1 THEN timing.now ELSE @]
    /\ UNCHANGED untimed

\* search_results = web_future.result(timeout=1.0) returns or times out
TimedWaitWeb ==
    /\ timing.pc = "wait_web"
    /\ Returns(timing.web_done_at, WebTimeout)
    /\ timing' = [timing EXCEPT
          !.has_web = IsDone(timing.web_done_at),
          !.pc = "returned",
          !.returned_at = timing.now]
    /\ UNCHANGED untimed

TimedNext ==
    \/ \E message \in Queries : TimedSubmit(message)
    \/ Tick
    \/ TimedWaitContext
    \/ TimedWaitWeb

\* one context assembly of HandeAI, with time
TimedSpec == TimedInit /\ [][TimedNext]_vars

----------------------------------------------------------------------------
(* The web-search test of a turn, on many queries *)

\* the characters the user types
QueryChars == {"n", "o", "w", "k", "N", " "}

\* "What's the weather today?"
WeatherToday ==
    << "W", "h", "a", "t", "'", "s", " ", "t", "h", "e", " ", "w", "e", "a",
       "t", "h", "e", "r", " ", "t", "o", "d", "a", "y", "?" >>

\* "Explain recursion"
ExplainRecursion ==
    << "E", "x", "p", "l", "a", "i", "n", " ", "r", "e", "c", "u", "r", "s",
       "i", "o", "n" >>

\* message = self.message_entry.get().strip(); if not message: return
QueryInputs ==
    { q \in UNION { [1..n -> QueryChars] : n \in 1..MaxQuery } :
        q[1] # " " /\ q[Len(q)] # " " }
    \cup { WeatherToday, ExplainRecursion }

\* send_message() has started the worker of the first turn on some query
QueryInit ==
    /\ connection = NoConnection
    /\ timing = NoTiming
    /\ app \in {SafeApp, FastApp}
    /\ response_thread = 1
    /\ stop_event = FALSE
    /\ message_queue = <<>>
    /\ tasks = <<>>
    /\ conversations = <<>>
    /\ IF app = SafeApp
       THEN /\ current_conversation_id = 0
            /\ uuids = 0
            /\ conversation_sessions = {}
       ELSE /\ current_conversation_id = 1
            /\ uuids = 1
            /\ conversation_sessions = { Session(1, NewChatTitle, 0) }
    /\ \E message \in QueryInputs :
          threads = [t \in TurnIds |-> IF t = 1 THEN NewThread(message) ELSE NoThread]

\* the worker up to the point where the web search is under way or skipped
QueryNext ==
    \/ SafeThinking(1)
    \/ SafeCheckWeb(1)
    \/ FastSubmitContext(1)
    \/ FastSubmitWeb(1)

QuerySpec == QueryInit /\ [][QueryNext]_vars

----------------------------------------------------------------------------
(* The lookup of recent turns, on many stores *)

\* the conversations that exist when the lookup is followed
ChatIds == 1..2

\* the turns that table conversations may hold, in the order of their ids
StoredTurns ==
    UNION { [1..n -> { Row(cid, user_msg, Reply(1)) :
                          cid \in ChatIds, user_msg \in Queries }] :
            n \in 0..MaxRows }

\* the row of conversation cid in conversation_sessions when its turns in
\* table rows were saved one after the other
SessionOf(cid, rows) ==
    LET turns == SelectSeq(rows, LAMBDA r : r.conversation_id = cid) IN
    Session(cid,
            IF turns = <<>> THEN NewChatTitle ELSE TitleOf(turns[1].user_message),
            Len(turns))

\* HandeGUI with some turns stored in two conversations, one of them current
\* (0: a HandeAI on which create_new_conversation() has not run), and the
\* worker of a turn started
ContextInit ==
    /\ connection = NoConnection
    /\ timing = NoTiming
    /\ app = FastApp
    /\ response_thread = 1
    /\ stop_event = FALSE
    /\ message_queue = <<>>
    /\ tasks = <<>>
    /\ conversations \in StoredTurns
    /\ conversation_sessions = { SessionOf(cid, conversations) : cid \in ChatIds }
    /\ uuids = 2
    /\ current_conversation_id \in {0} \cup ChatIds
    /\ threads = [t \in TurnIds |->
                    IF t = 1 THEN NewThread(<<"h", "i">>) ELSE NoThread]

\* the worker submits the lookup, the executor runs it, the worker reads it
ContextNext ==
    \/ FastSubmitContext(1)
    \/ \E k \in 1..FastMaxWorkers : run_get_conversation_context(k)
    \/ \E k \in 1..FastMaxWorkers : get_conversation_context_fails(k)
    \/ FastWaitContext(1)

ContextSpec == ContextInit /\ [][ContextNext]_vars

----------------------------------------------------------------------------
(* The store, statement by statement.

   Both applications keep ONE sqlite3 connection (check_same_thread=False)
   that the executor threads and the UI thread use without a lock.  A
   connection has one transaction: conversations and conversation_sessions
   are the tables as the connection sees them, connection.committed_rows and
   connection.committed_sessions are the tables as last committed.  The
   sqlite3 module opens a transaction before an INSERT, UPDATE or DELETE when
   none is open; BEGIN inside a transaction, and COMMIT or ROLLBACK as a
   statement outside one, raise OperationalError; Connection.commit()
   outside a transaction does nothing. *)

\* the variables that the store specification leaves alone
pipeline == << app, timing, threads, response_thread, stop_event, message_queue >>

\* the connection with executor thread k at w
AtWorker(k, w) == [connection EXCEPT !.workers[k] = w]

\* the connection with executor thread k at statement pc
GoTo(k, pc) == [connection EXCEPT !.workers[k].pc = pc]

\* the connection once the save of executor thread k has returned
Returned(k) ==
    [connection EXCEPT !.workers[k] = IdleWorker, !.returned = @ + 1]

\* the connection once the save of executor thread k has left its except block
Failed(k) ==
    [connection EXCEPT !.workers[k] = IdleWorker, !.failed = @ + 1]

\* Connection.commit() and the statement COMMIT, on connection c: the
\* tables rows and sessions become the committed ones
Committed(c, rows, sessions) ==
    [c EXCEPT !.in_transaction = FALSE,
              !.committed_rows = rows,
              !.committed_sessions = sessions]

\* a turn is over and its save is handed to the executor:
\* save_conversation_async(user_msg, ai_response) in Hande.py,
\* executor.submit(self.save_conversation, ...) in Hande_GUI.py
SubmitSave(user_msg) ==
    /\ connection.submitted < MaxSaves
    /\ IF app = SafeApp
       THEN /\ EnsureConversation
            /\ tasks' = Append(tasks,
                  Task("_save_to_db", connection.submitted + 1, user_msg, Reply(1)))
       ELSE /\ tasks' = Append(tasks,
                  Task("save_conversation", connection.submitted + 1, user_msg, Reply(1)))
            /\ UNCHANGED << current_conversation_id, uuids >>
    /\ connection' = [connection EXCEPT !.submitted = @ + 1]
    /\ UNCHANGED << pipeline, conversations, conversation_sessions >>

\* a free executor thread takes the oldest save of the work queue
TakeSave(k) ==
    /\ k \in 1..MaxWorkers
    /\ connection.workers[k].pc = "idle"
    /\ tasks # <<>>
    /\ tasks' = Tail(tasks)
    /\ connection' = AtWorker(k,
          [ pc            |-> IF app = SafeApp THEN "insert" ELSE "begin",
            user_msg      |-> Head(tasks).user_msg,
            ai_response   |-> Head(tasks).ai_response,
            message_count |-> -1 ])
    /\ UNCHANGED << pipeline, current_conversation_id, uuids,
                    conversations, conversation_sessions >>

\* cursor.execute('BEGIN TRANSACTION'); current_conversation_id is set since
\* HandeGUI.__init__, so create_new_conversation() is not called
BeginTransaction(k) ==
    /\ app = FastApp
    /\ connection.workers[k].pc = "begin"
    /\ connection' =
          IF connection.in_transaction
          THEN GoTo(k, "rollback")
          ELSE [GoTo(k, "insert") EXCEPT !.in_transaction = TRUE]
    /\ UNCHANGED << pipeline, tasks, current_conversation_id, uuids,
                    conversations, conversation_sessions >>

\* INSERT INTO conversations (conversation_id, ...) VALUES
\* (self.current_conversation_id, ...), in both applications
InsertRow(k) ==
    /\ connection.workers[k].pc = "insert"
    /\ conversations' = Append(conversations,
          Row(current_conversation_id,
              connection.workers[k].user_msg, connection.workers[k].ai_response))
    /\ connection' =
          [GoTo(k, IF app = SafeApp THEN "replace" ELSE "update")
              EXCEPT !.in_transaction = TRUE]
    /\ UNCHANGED << pipeline, tasks, current_conversation_id, uuids,
                    conversation_sessions >>

\* UPDATE conversation_sessions SET last_updated = ?,
\* message_count = message_count + 1 WHERE id = self.current_conversation_id
UpdateSession(k) ==
    /\ app = FastApp
    /\ connection.workers[k].pc = "update"
    /\ conversation_sessions' =
          { IF s.id = current_conversation_id
            THEN [s EXCEPT !.message_count = @ + 1] ELSE s :
            s \in conversation_sessions }
    /\ connection' = [GoTo(k, "select") EXCEPT !.in_transaction = TRUE]
    /\ UNCHANGED << pipeline, tasks, current_conversation_id, uuids, conversations >>

\* SELECT message_count FROM conversation_sessions WHERE id = ?; fetchone();
\* if result and result[0] == 1: the title is set next
SelectCount(k) ==
    /\ app = FastApp
    /\ connection.workers[k].pc = "select"
    /\ LET found == { s \in conversation_sessions : s.id = current_conversation_id }
           count == IF found = {} THEN -1 ELSE (CHOOSE s \in found : TRUE).message_count
       IN connection' =
             [GoTo(k, IF count = 1 THEN "title" ELSE "commit")
                 EXCEPT !.workers[k].message_count = count]
    /\ UNCHANGED << pipeline, tasks, current_conversation_id, uuids,
                    conversations, conversation_sessions >>

\* UPDATE conversation_sessions SET title = ? WHERE id = ?
UpdateTitle(k) ==
    /\ app = FastApp
    /\ connection.workers[k].pc = "title"
    /\ conversation_sessions' =
          { IF s.id = current_conversation_id
            THEN [s EXCEPT !.title = TitleOf(connection.workers[k].user_msg)] ELSE s :
            s \in conversation_sessions }
    /\ connection' = [GoTo(k, "commit") EXCEPT !.in_transaction = TRUE]
    /\ UNCHANGED << pipeline, tasks, current_conversation_id, uuids, conversations >>

\* cursor.execute('COMMIT'): raises when no transaction is open
ExecuteCommit(k) ==
    /\ app = FastApp
    /\ connection.workers[k].pc = "commit"
    /\ connection' =
          IF connection.in_transaction
          THEN Committed(Returned(k), conversations, conversation_sessions)
          ELSE GoTo(k, "rollback")
    /\ UNCHANGED << pipeline, tasks, current_conversation_id, uuids,
                    conversations, conversation_sessions >>

\* except Exception: cursor.execute('ROLLBACK'); outside a transaction the
\* statement raises and the error ends the task
ExecuteRollback(k) ==
    /\ app = FastApp
    /\ connection.workers[k].pc = "rollback"
    /\ connection' = [Failed(k) EXCEPT !.in_transaction = FALSE]
    /\ IF connection.in_transaction
       THEN /\ conversations' = connection.committed_rows
            /\ conversation_sessions' = connection.committed_sessions
       ELSE UNCHANGED << conversations, conversation_sessions >>
    /\ UNCHANGED << pipeline, tasks, current_conversation_id, uuids >>

\* INSERT OR REPLACE INTO conversation_sessions (id, title, created_at,
\* last_updated) VALUES (self.current_conversation_id, user_msg[:30], now, now)
ReplaceSession(k) ==
    /\ app = SafeApp
    /\ connection.workers[k].pc = "replace"
    /\ conversation_sessions' =
          { s \in conversation_sessions : s.id # current_conversation_id }
          \cup { Session(current_conversation_id,
                         Take(connection.workers[k].user_msg, TitleLen), 0) }
    /\ connection' = [GoTo(k, "commit") EXCEPT !.in_transaction = TRUE]
    /\ UNCHANGED << pipeline, tasks, current_conversation_id, uuids, conversations >>

\* self.db_conn.commit() at the end of _save_to_db
db_conn_commit(k) ==
    /\ app = SafeApp
    /\ connection.workers[k].pc = "commit"
    /\ connection' = Committed(Returned(k), conversations, conversation_sessions)
    /\ UNCHANGED << pipeline, tasks, current_conversation_id, uuids,
                    conversations, conversation_sessions >>

\* a statement of a save raises (database locked, disk full): _save_to_db
\* prints the error and returns, save_conversation goes to its ROLLBACK
StatementFails(k) ==
    /\ connection.workers[k].pc \in {"insert", "update", "select", "title", "replace"}
    /\ connection' = IF app = SafeApp THEN Failed(k) ELSE GoTo(k, "rollback")
    /\ UNCHANGED << pipeline, tasks, current_conversation_id, uuids,
                    conversations, conversation_sessions >>

\* the UI thread is at step pc of a sidebar command on conversation cid
AtUI(pc, cid) == [connection EXCEPT !.ui = [pc |-> pc, conversation_id |-> cid]]

\* the UI thread has returned from its command
UIReturns == [pc |-> "idle", conversation_id |-> 0]

\* "New Chat": create_new_conversation() sets current_conversation_id to a new
\* uuid; in Hande.py that is all of it
create_new_conversation ==
    /\ connection.ui.pc = "idle"
    /\ uuids < MaxChats
    /\ uuids' = uuids + 1
    /\ current_conversation_id' = uuids + 1
    /\ connection' = IF app = SafeApp THEN connection ELSE AtUI("insert", uuids + 1)
    /\ UNCHANGED << pipeline, tasks, conversations, conversation_sessions >>

\* INSERT INTO conversation_sessions (id, title, ...) VALUES (conv_id, "New Chat", ...)
InsertSession ==
    /\ connection.ui.pc = "insert"
    /\ conversation_sessions' = conversation_sessions
          \cup { Session(connection.ui.conversation_id, NewChatTitle, 0) }
    /\ connection' = [AtUI("commit", 0) EXCEPT !.in_transaction = TRUE]
    /\ UNCHANGED << pipeline, tasks, current_conversation_id, uuids, conversations >>

\* the INSERT of create_new_conversation raises: except Exception: pass
InsertSessionFails ==
    /\ connection.ui.pc = "insert"
    /\ connection' = [connection EXCEPT !.ui = UIReturns]
    /\ UNCHANGED << pipeline, tasks, current_conversation_id, uuids,
                    conversations, conversation_sessions >>

\* "Delete" on a listed chat, confirmed:
\* DELETE FROM conversations WHERE conversation_id = ?
DeleteRows(cid) ==
    /\ app = FastApp
    /\ connection.ui.pc = "idle"
    /\ cid \in Listed
    /\ conversations' = SelectSeq(conversations, LAMBDA r : r.conversation_id # cid)
    /\ connection' = [AtUI("delete", cid) EXCEPT !.in_transaction = TRUE]
    /\ UNCHANGED << pipeline, tasks, current_conversation_id, uuids,
                    conversation_sessions >>

\* DELETE FROM conversation_sessions WHERE id = ?
DeleteSession ==
    /\ connection.ui.pc = "delete"
    /\ conversation_sessions' =
          { s \in conversation_sessions : s.id # connection.ui.conversation_id }
    /\ connection' = [AtUI("commit", 0) EXCEPT !.in_transaction = TRUE]
    /\ UNCHANGED << pipeline, tasks, current_conversation_id, uuids, conversations >>

\* what the rename dialog returns
NewName == <<"r">>

\* "Rename" on a listed chat: UPDATE conversation_sessions SET title = ? WHERE id = ?
RenameSession(cid) ==
    /\ app = FastApp
    /\ connection.ui.pc = "idle"
    /\ cid \in Listed
    /\ conversation_sessions' =
          { IF s.id = cid THEN [s EXCEPT !.title = NewName] ELSE s :
            s \in conversation_sessions }
    /\ connection' = [AtUI("commit", 0) EXCEPT !.in_transaction = TRUE]
    /\ UNCHANGED << pipeline, tasks, current_conversation_id, uuids, conversations >>

\* self.hande_ai.connection_pool.commit() at the end of a sidebar command
connection_pool_commit ==
    /\ connection.ui.pc = "commit"
    /\ connection' =
          IF connection.in_transaction
          THEN Committed([connection EXCEPT !.ui = UIReturns],
                         conversations, conversation_sessions)
          ELSE [connection EXCEPT !.ui = UIReturns]
    /\ UNCHANGED << pipeline, tasks, current_conversation_id, uuids,
                    conversations, conversation_sessions >>

\* the save that executor thread k runs, one statement at a time
SaveStatement(k) ==
    \/ BeginTransaction(k)
    \/ InsertRow(k)
    \/ UpdateSession(k)
    \/ SelectCount(k)
    \/ UpdateTitle(k)
    \/ ExecuteCommit(k)
    \/ ExecuteRollback(k)
    \/ ReplaceSession(k)
    \/ db_conn_commit(k)
    \/ StatementFails(k)

\* a sidebar command of the UI thread, one statement at a time
SidebarStatement ==
    \/ create_new_conversation
    \/ InsertSession
    \/ InsertSessionFails
    \/ \E cid \in 1..MaxChats : DeleteRows(cid)
    \/ DeleteSession
    \/ \E cid \in 1..MaxChats : RenameSession(cid)
    \/ connection_pool_commit

StoreNext ==
    \/ \E user_msg \in Queries : SubmitSave(user_msg)
    \/ \E k \in 1..FastMaxWorkers : TakeSave(k)
    \/ \E k \in 1..FastMaxWorkers : SaveStatement(k)
    \/ SidebarStatement

\* as Init, with the connection followed: what __init__ has written (the
\* first session of HandeGUI) is committed
StoreInit ==
    /\ timing = NoTiming
    /\ app \in {SafeApp, FastApp}
    /\ threads = [t \in TurnIds |-> NoThread]
    /\ response_thread = 0
    /\ stop_event = FALSE
    /\ message_queue = <<>>
    /\ tasks = <<>>
    /\ conversations = <<>>
    /\ IF app = SafeApp
       THEN /\ current_conversation_id = 0
            /\ uuids = 0
            /\ conversation_sessions = {}
       ELSE /\ current_conversation_id = 1
            /\ uuids = 1
            /\ conversation_sessions = { Session(1, NewChatTitle, 0) }
    /\ connection = Committed(NoConnection, conversations, conversation_sessions)

\* saves and sidebar commands on a new database
StoreSpec == StoreInit /\ [][StoreNext]_vars

(* The event grammar of a turn (C1) *)

\* the types of the events of a sequence
TypesOf(evs) == [k \in 1..Len(evs) |-> evs[k].type]

\* Status* (StreamStart Char* (Complete|Error))? as an automaton: where it
\* is in state q, the state after an event of type e
StreamGrammar(q, e) ==
    CASE q = "status" /\ e = "status"                -> "status"
      [] q = "status" /\ e = "start_stream"          -> "stream"
      [] q = "stream" /\ e = "char"                  -> "stream"
      [] q = "stream" /\ e \in {"complete", "error"} -> "end"
      [] OTHER                                       -> "bad"

RECURSIVE RunStreamGrammar(_, _)
RunStreamGrammar(q, types) ==
    IF types = <<>> THEN q
    ELSE RunStreamGrammar(StreamGrammar(q, Head(types)), Tail(types))

\* Status* (Error | StreamStart Char* (Complete Error? | Error))?
WorkerGrammar(q, e) ==
    CASE q = "status" /\ e = "status"       -> "status"
      [] q = "status" /\ e = "start_stream" -> "stream"
      [] q = "status" /\ e = "error"        -> "end"
      [] q = "stream" /\ e = "char"         -> "stream"
      [] q = "stream" /\ e = "complete"     -> "completed"
      [] q = "stream" /\ e = "error"        -> "end"
      [] q = "completed" /\ e = "error"     -> "end"
      [] OTHER                              -> "bad"

RECURSIVE RunWorkerGrammar(_, _)
RunWorkerGrammar(q, types) ==
    IF types = <<>> THEN q
    ELSE RunWorkerGrammar(WorkerGrammar(q, Head(types)), Tail(types))

\* the worker of turn t has returned
Finished(t) == threads[t].pc = "done"

----------------------------------------------------------------------------
(* Cancellation (C2, C3) *)

\* the save tasks of turn t that are waiting in the executor
SavesOf(t) ==
    { k \in 1..Len(tasks) :
         tasks[k].thread = t /\ tasks[k].fn \in {"_save_to_db", "save_conversation"} }

\* C2: when the worker of ThreadSafeHandeAI has returned from a turn whose
\* stop was requested after k characters of the response had been put
\* (0 <= k < length of the response), it has put exactly k Char events and
\* no Complete event.
C2_CancelAfterK ==
    app = SafeApp =>
       \A t \in TurnIds :
          ( /\ Finished(t)
            /\ threads[t].response # <<>>
            /\ threads[t].stopped_at >= 0
            /\ threads[t].stopped_at < Len(threads[t].response[1]) )
          => /\ CharsSent(t) = threads[t].stopped_at
             /\ OfType(threads[t].sent, "complete") = <<>>

\* C3: for a turn whose streaming loop was left because the stop was
\* requested before all characters were emitted, no save is scheduled and
\* no row is written.
C3_CancelledNotPersisted ==
    \A t \in TurnIds :
       threads[t].cancelled => SavesOf(t) = {} /\ ~threads[t].saved

----------------------------------------------------------------------------
(* One worker at a time (C4, C5) *)

\* the generation workers that are alive
AliveWorkers == { t \in TurnIds : is_alive(t) }

\* C4: in every reachable state at most one generation worker thread of the
\* application is alive.
C4_AtMostOneWorker == Cardinality(AliveWorkers) <= 1

\* a step of send_message() with a non-empty message
SendMessageStep ==
    \E message \in Queries :
       \/ SafeSendMessage(message, MaxTurns)
       \/ SafeSendRejected(message)
       \/ FastSendMessage(message, MaxTurns)

\* C5: a send_message() while the worker of the previous turn is alive
\* changes no state: no worker is started, the event queue and the stop
\* signal are not cleared, the running turn keeps its events.
C5_SecondSendRejected ==
    [][ (is_alive(response_thread) /\ SendMessageStep) => UNCHANGED vars ]_vars

----------------------------------------------------------------------------
(* Model invocation (C6, C7, C8) *)

\* the calls of turn t that succeeded, by their position
Succeeded(t) == { k \in 1..Len(threads[t].calls) : threads[t].calls[k].ok }

\* every model of the list has been called in turn t and has failed
AllFailed(t) ==
    /\ Len(threads[t].calls) = Len(Models)
    /\ Succeeded(t) = {}

\* C6: in both applications the k-th call of a turn goes to the k-th model of
\* the list, only the last call made can have succeeded (no model is
\* contacted after a success), and the response of the turn is the reply of
\* the call that succeeded.
C6_FallbackOrder ==
    \A t \in TurnIds :
       LET calls == threads[t].calls IN
       /\ Len(calls) <= Len(Models)
       /\ \A k \in 1..Len(calls) : calls[k].model = Models[k]
       /\ Succeeded(t) \subseteq {Len(calls)}
       /\ threads[t].response =
             IF Succeeded(t) = {} THEN <<>> ELSE <<calls[Len(calls)].reply>>

\* candidates [A, B, C, D] of ThreadSafeHandeAI, A and B failed, C succeeded
\* with a text, and the worker has returned: the calls are A, B, C
C6_ThirdCandidateAnswers ==
    \E t \in TurnIds :
       LET calls == threads[t].calls IN
       /\ app = SafeApp
       /\ Finished(t)
       /\ Len(calls) = 3
       /\ ~calls[1].ok /\ ~calls[2].ok /\ calls[3].ok
       /\ calls[3].reply # <<>>
       /\ threads[t].response = <<calls[3].reply>>

\* C7: the worker reports "no model available" only if every model of the
\* list failed, and a worker that has returned from a turn in which every
\* model failed has emitted exactly one Error event, as its last event, and
\* no Char and no Complete event.
C7_NoBackendAvailable ==
    \A t \in TurnIds :
       LET sent == threads[t].sent IN
       /\ (\E k \in 1..Len(sent) : sent[k] = ErrorNoModels) => AllFailed(t)
       /\ (Finished(t) /\ AllFailed(t)) =>
             /\ Len(OfType(sent, "error")) = 1
             /\ sent[Len(sent)].type = "error"
             /\ OfType(sent, "char") = <<>>
             /\ OfType(sent, "complete") = <<>>

\* C8: when the worker of ThreadSafeHandeAI has returned from a turn that
\* was not cancelled and in which a model succeeded, its last event is the
\* Complete event with the reply of the first model that succeeded, and it
\* has emitted no Error event.
C8_CompleteCarriesReply ==
    app = SafeApp =>
       \A t \in TurnIds :
          LET sent == threads[t].sent
              calls == threads[t].calls IN
          (Finished(t) /\ ~threads[t].cancelled /\ Succeeded(t) # {}) =>
             /\ sent # <<>>
             /\ sent[Len(sent)] =
                   Complete(calls[CHOOSE k \in Succeeded(t) :
                                    \A j \in Succeeded(t) : k <= j].reply)
             /\ OfType(sent, "error") = <<>>

----------------------------------------------------------------------------
(* Context assembly (C9, C10) *)

\* max(recentContextTimeout, webTimeout)
LongestTimeout == IF ContextTimeout >= WebTimeout THEN ContextTimeout ELSE WebTimeout

\* C9: the context assembly is over within max(0.5 s, 1.0 s) of its start,
\* whatever time the two lookups take.
C9_ContextBound ==
    timing.pc = "returned" =>
       timing.returned_at - timing.started <= LongestTimeout

\* result(timeout=...) finds no result: the future is not done, or the
\* lookup has failed and has returned nothing
NothingArrived(future, result) == future # "done" \/ result = <<>>

\* what C10 says of one step, for the worker of turn t
ContextUnavailable(t) ==
    LET th  == threads[t]
        th2 == threads'[t] IN
    \* the wait for the conversation lookup is over
    /\ (th.pc = "wait_context" /\ th2.pc # "wait_context") =>
          /\ th2.pc \in {"wait_web", "chat"}
          /\ th2.sent = th.sent
          /\ NothingArrived(th.context_future, th.context_result)
                => th2.context = <<>>
    \* the wait for the web lookup is over
    /\ (th.pc = "wait_web" /\ th2.pc # "wait_web") =>
          /\ th2.pc = "chat"
          /\ th2.sent = th.sent
          /\ th2.context = th.context
          /\ NothingArrived(th.web_future, th.web_result)
                => th2.web_info = <<>>
    \* the synchronous web lookup of ThreadSafeHandeAI is over
    /\ (th.pc = "search" /\ th2.pc # "search") =>
          /\ th2.pc = "prompt"
          /\ th2.sent = th.sent
    \* the prompt is built from what the waits have found
    /\ (th.prompts = <<>> /\ th2.prompts # <<>>) =>
          /\ th2.pc = "chat"
          /\ th2.prompts = << SystemPrompt(th2.context, th2.web_info) >>
    \* and nothing that arrives later changes it
    /\ ((th.pc = "wait_web" \/ th.prompts # <<>>) /\ th2.pc # "none") =>
          /\ th2.context = th.context
          /\ th.prompts # <<>> => th2.prompts = th.prompts /\ th2.web_info = th.web_info
    /\ \A k \in 1..Len(th2.calls) : th2.calls[k].prompt = th2.prompts[1]

\* C10: a lookup that has timed out or has failed leaves its section of the
\* prompt empty, the worker goes on to the model invocation and emits no
\* event for it, and the prompt of every model call is the one built when
\* the waits were over: a result that arrives later is not used.
C10_ContextUnavailable == [][ \A t \in TurnIds : ContextUnavailable(t) ]_vars

\* HandeAI has called a model with both sections of the prompt empty while
\* the two lookups of the turn are still waiting in the executor and the
\* conversation has a stored turn that the late lookup will find
C10_AbandonedLookups ==
    \E t \in TurnIds :
       /\ app = FastApp
       /\ threads[t].calls # <<>>
       /\ threads[t].calls[1].prompt = SystemPrompt(<<>>, <<>>)
       /\ \E k \in 1..Len(tasks) :
             tasks[k].thread = t /\ tasks[k].fn = "get_conversation_context"
       /\ \E k \in 1..Len(tasks) :
             tasks[k].thread = t /\ tasks[k].fn = "search_web_fast"
       /\ RowsOf(current_conversation_id) # <<>>


(* Session consistency (C11) *)

\* get_conversations(): SELECT id, title, created_at, message_count in
\* Hande_GUI.py, SELECT id, title, created_at in Hande.py
get_conversations ==
    IF app = FastApp
    THEN { [id |-> s.id, title |-> s.title, message_count |-> s.message_count] :
           s \in conversation_sessions }
    ELSE { [id |-> s.id, title |-> s.title] : s \in conversation_sessions }

\* no save is queued or running and no sidebar command is under way
Quiescent ==
    /\ tasks = <<>>
    /\ \A k \in 1..FastMaxWorkers : connection.workers[k].pc = "idle"
    /\ connection.ui.pc = "idle"

\* every save so far was made on the first conversation, which is current
\* and, in HandeGUI, still has the session row that __init__ created
OneSession ==
    /\ uuids = 1
    /\ current_conversation_id = 1
    /\ app = FastApp => 1 \in Listed

\* C11: when N saves have returned without an error on one session, and
\* nothing else has been saved, the session list has an entry for that session
\* whose turn count is N, and the session has N turn rows.
C11_SessionCount ==
    (Quiescent /\ OneSession /\ connection.returned > 0) =>
        /\ Len(RowsOf(1)) = connection.returned
        /\ \E s \in get_conversations :
              /\ s.id = 1
              /\ "message_count" \in DOMAIN s
              /\ s.message_count = connection.returned


(* Atomic append (C12) *)

\* the committed turn rows of conversation cid
CommittedRowsOf(cid) ==
    SelectSeq(connection.committed_rows, LAMBDA r : r.conversation_id = cid)

\* C12: in every committed state the counter of a session equals the number
\* of its turn rows, and a turn row is durable only through an append that ran
\* to its end: an append that failed has left nothing behind.
C12_AtomicAppend ==
    /\ app = FastApp =>
          \A s \in connection.committed_sessions :
              s.message_count = Len(CommittedRowsOf(s.id))
    /\ Len(connection.committed_rows) <= connection.returned


(* The web-search test (C13, C14) *)

\* the worker of turn t has evaluated needs_web_search(user_query)
Decided(t) ==
    threads[t].pc \in (IF app = SafeApp THEN {"search", "prompt"}
                       ELSE {"submit_web", "wait_context"})

\* ... and it returned True: the search is announced (Hande.py) or about to
\* be or already submitted (Hande_GUI.py)
Searches(t) ==
    \/ threads[t].pc \in {"search", "submit_web"}
    \/ threads[t].web_future = "pending"

\* the words of the lexicon
Lexicon == { Indicators[n] : n \in 1..Len(Indicators) }

\* q[i..j] is a token of q: a longest run of characters without a blank
IsToken(q, i, j) ==
    /\ i <= j
    /\ \A k \in i..j : q[k] # " "
    /\ i = 1 \/ q[i - 1] = " "
    /\ j = Len(q) \/ q[j + 1] = " "

\* a token of the query, in lower case, is a word of the lexicon
HasLexiconToken(q) ==
    \E i \in 1..Len(q) : \E j \in i..Len(q) :
        IsToken(q, i, j) /\ Lower(SubSeq(q, i, j)) \in Lexicon

\* C13: the web-search test of a turn returns True exactly when a token of
\* the query, compared without case, is a word of the lexicon.
C13_TokenLexicon ==
    \A t \in TurnIds :
        Decided(t) => (Searches(t) <=> HasLexiconToken(threads[t].user_query))

\* C13, the two examples: "What's the weather today?" is searched for,
\* "Explain recursion" is not.
C13_Examples ==
    \A t \in TurnIds :
        Decided(t) =>
            /\ threads[t].user_query = WeatherToday => Searches(t)
            /\ threads[t].user_query = ExplainRecursion => ~Searches(t)

\* the step in which the worker of turn t evaluates needs_web_search
CallStep(t) == ~Decided(t) /\ Decided(t)'

StoppedInCall(t) ==
    LET calls == threads[t].calls IN
    /\ calls # <<>>
    /\ calls[Len(calls)].ok
    /\ calls[Len(calls)].stopped

\* C15: when the stop was requested before the successful model call of a
\* turn returned, the worker emits no StreamStart, Char or Complete event for
\* the turn, and the turn is neither scheduled for saving nor saved.
C15_ResultDiscarded ==
    \A t \in TurnIds :
        StoppedInCall(t) =>
            /\ \A k \in 1..Len(threads[t].sent) :
                  threads[t].sent[k].type \notin {"start_stream", "char", "complete"}
            /\ SavesOf(t) = {}
            /\ ~threads[t].saved


(* The stop signal of a turn (C16) *)

\* C16: once stop_event is set while the worker of a turn is alive, it stays
\* set for as long as that worker is alive: no step, and in particular no
\* later send_message, clears the event that a running worker polls.
C16_Latch ==
    [][ \A t \in TurnIds :
           (is_alive(t) /\ stop_event /\ is_alive(t)') => stop_event' ]_vars


(* Events of different turns (C17) *)

\* q is what remains of sequence s after some of its first elements
IsSuffix(q, s) ==
    /\ Len(q) <= Len(s)
    /\ \A k \in 1..Len(q) : q[k] = s[Len(s) - Len(q) + k]

\* the consumer shows the turn of response_thread: its worker is alive and
\* Stop was not pressed since it was started, so that in HandeGUI
\* current_response_label is the label of that turn
ShowsCurrentTurn == is_alive(response_thread) /\ ~stop_event

\* C17: while the consumer shows the current turn, the worker of an earlier
\* turn delivers no event; and what waits in the message queue was put by the
\* worker of the current turn.
C17_NoInterleaving ==
    [][ /\ \A t \in TurnIds :
              (ShowsCurrentTurn /\ t # response_thread /\ is_alive(t))
                  => threads'[t].sent = threads[t].sent
        /\ response_thread' # 0 =>
              IsSuffix(message_queue', threads'[response_thread'].sent) ]_vars


(* One writer at a time (C18) *)

\* the executor threads that are inside an append: past its first statement
\* and before the end of its commit
Appending ==
    { k \in 1..FastMaxWorkers :
        connection.workers[k].pc \in
            {"insert", "update", "select", "title", "replace", "commit"} }

\* the append of executor thread k has written its row and is not committed
PartlyApplied(k) ==
    connection.workers[k].pc \in {"update", "select", "title", "replace", "commit"}

\* the UI thread is inside a sidebar command that has written to the store
UIWriting == connection.ui.pc \in {"delete", "commit"}

\* C18: at most one append is under way, no sidebar command writes while an
\* append is under way, and a step that ends the transaction of the
\* connection (a commit or a rollback) is never taken while the append of
\* another thread is partly applied.
C18_SerializedWrites ==
    [][ /\ Cardinality(Appending') <= 1
        /\ UIWriting' => Appending' = {}
        /\ (connection.in_transaction /\ ~connection'.in_transaction) =>
              \A k \in 1..FastMaxWorkers :
                 ~(PartlyApplied(k) /\ connection'.workers[k] = connection.workers[k])
      ]_vars


(* Failures of persistence and of the turn (C19, C20) *)

\* the worker of turn t has put its Complete event
Completed(t) == OfType(threads[t].sent, "complete") # <<>>

\* C19: in ThreadSafeHandeAI a save is queued or done only for a turn whose
\* Complete event has been put, and once the Complete event of a turn has
\* been put, its worker puts no further event, whatever happens to the save.
C19_FireAndForget ==
    [][ app = SafeApp =>
           \A t \in TurnIds :
              /\ (SavesOf(t)' # {} \/ threads'[t].saved) => Completed(t)'
              /\ (Completed(t) /\ Completed(t)') =>
                    threads'[t].sent = threads[t].sent ]_vars

\* the turn of worker t failed: every model of the list failed, or an
\* exception ended the thread
TurnFailed(t) == AllFailed(t) \/ threads[t].crashed

\* C20: a worker that has returned from a failed turn has emitted exactly one
\* Error event, as its last event, and the turn is neither queued for saving
\* nor saved.
C20_FailedTurn ==
    \A t \in TurnIds :
        (Finished(t) /\ TurnFailed(t)) =>
            LET sent == threads[t].sent IN
            /\ Len(OfType(sent, "error")) = 1
            /\ sent[Len(sent)].type = "error"
            /\ SavesOf(t) = {}
            /\ ~threads[t].saved


(* The title of a session (C21) *)

\* executor thread k executes a statement on conversation_sessions for a turn
\* that is not the first of the current conversation: the conversation has
\* the row of this turn and at least one earlier row
LaterSessionUpdate(k) ==
    /\ connection.workers[k].pc \in {"update", "title", "replace"}
    /\ connection'.workers[k].pc # connection.workers[k].pc
    /\ Len(RowsOf(current_conversation_id)) >= 2

\* C21: the session statements of an append that is not the first of its
\* conversation leave the title of the session as it was.
C21_TitleFrame ==
    [][ \A k \in 1..FastMaxWorkers :
           LaterSessionUpdate(k) =>
              \A s \in conversation_sessions : \A s2 \in conversation_sessions' :
                 (s.id = current_conversation_id /\ s2.id = s.id)
                    => s2.title = s.title ]_vars


(* Every turn ends (C22) *)

\* the Complete and Error events that worker t has emitted
TerminalEvents(t) ==
    SelectSeq(threads[t].sent, LAMBDA e : e.type \in {"complete", "error"})

\* C22, the part about termination: a worker that was started returns.
C22_WorkerReturns ==
    \A t \in TurnIds : is_alive(t) ~> Finished(t)

\* C22: a worker that was started returns, and it has then emitted exactly
\* one terminal event, Complete or Error.
C22_TurnEnds ==
    \A t \in TurnIds :
        is_alive(t) ~> (Finished(t) /\ Len(TerminalEvents(t)) = 1)


(* Recent turns (C23) *)

\* the turns recorded for conversation cid, oldest first
TurnsOf(cid) == SelectSeq(conversations, LAMBDA r : r.conversation_id = cid)

\* the smaller of two numbers
Min(a, b) == IF a <= b THEN a ELSE b

\* result is the last min(limit, n) of the n turns of conversation cid, in
\* the order of insertion
IsRecentTurns(result, cid, limit) ==
    LET n == Len(TurnsOf(cid)) IN
    /\ Len(result) = Min(limit, n)
    /\ \A k \in 1..Len(result) : result[k] = TurnsOf(cid)[n - Len(result) + k]

\* C23: for every limit, get_conversation_context(limit) is empty when there
\* is no current conversation and else the last min(limit, n) turns of the
\* current conversation, oldest first; the lookup that the executor runs
\* hands this value for limit 2 to a worker that still waits for it, and an
\* empty sequence when the read fails.
C23_RecentTurns ==
    [][ /\ \A limit \in 0..MaxLimit :
              IF current_conversation_id = 0
              THEN get_conversation_context(limit) = <<>>
              ELSE IsRecentTurns(get_conversation_context(limit),
                                 current_conversation_id, limit)
        /\ \A k \in 1..FastMaxWorkers :
              /\ (threads[1].context_future = "pending"
                     /\ run_get_conversation_context(k)) =>
                    /\ threads'[1].context_future = "done"
                    /\ IF current_conversation_id = 0
                       THEN threads'[1].context_result = <<>>
                       ELSE IsRecentTurns(threads'[1].context_result,
                                          current_conversation_id, 2)
              /\ get_conversation_context_fails(k) =>
                    threads'[1].context_result = <<>> ]_vars

\* C23, witness: the current conversation has three turns and the worker was
\* handed the last two of them
C23_LastTwoOfThree ==
    /\ current_conversation_id # 0
    /\ Len(TurnsOf(current_conversation_id)) = 3
    /\ threads[1].context_future = "done"
    /\ Len(threads[1].context_result) = 2
    /\ threads[1].context_result[2] = conversations[3]


(* The session of a turn (C24) *)

\* the save of turn t is executed in this step
SaveStep(t) == ~threads[t].saved /\ threads'[t].saved

\* C24: the save of a turn that began with a current conversation appends
\* its row to that conversation and changes the session row of no other
\* conversation, whatever the user has selected in the sidebar since.
C24_OriginalSession ==
    [][ \A t \in TurnIds :
           (SaveStep(t) /\ threads[t].origin # 0) =>
              /\ conversations'[Len(conversations')].conversation_id
                    = threads[t].origin
              /\ \A s \in conversation_sessions :
                    s.id # threads[t].origin => s \in conversation_sessions'
      ]_vars


(* The characters of a reply (C25) *)

\* the payloads of the Char events that worker t has emitted, in order
CharsOf(t) ==
    LET chars == OfType(threads[t].sent, "char") IN
    [k \in 1..Len(chars) |-> chars[k].data[1]]

\* the turn of worker t got a reply from a model and its streaming loop was
\* not left because of a stop
Answered(t) == Succeeded(t) # {} /\ ~threads[t].cancelled

\* C25: in a turn that got a reply and was not cancelled, the Char events
\* emitted so far are the first characters of the reply, in order; when the
\* worker has returned they are all of its characters, one event each, and
\* they spell the payload of every Complete event of the turn.
C25_CharsSpellReply ==
    \A t \in TurnIds :
        Answered(t) =>
            LET reply == threads[t].response[1] IN
            /\ Len(CharsOf(t)) <= Len(reply)
            /\ CharsOf(t) = SubSeq(reply, 1, Len(CharsOf(t)))
            /\ Finished(t) => CharsOf(t) = reply
            /\ \A k \in 1..Len(threads[t].sent) :
                  threads[t].sent[k].type = "complete"
                     => threads[t].sent[k].data = CharsOf(t)

====
